---- MODULE Spec2Model ----
(***************************************************************************)
(* Subscription engine of the auto-approve bot (src/login.py).             *)
(*                                                                         *)
(* Durable state lives in two store tables, user_subscriptions and         *)
(* user_payment_links, that this bot shares with its sibling bots (the     *)
(* same purchase flow runs in each of them).  A handler is a sequence of   *)
(* blocking calls to the store and to the payment provider; one step of    *)
(* the model is one such call together with the local computation that     *)
(* follows it.  The calls are synchronous, so within one event loop a      *)
(* handler runs from its first store call to its last without yielding:    *)
(* SpecSeq is that deployment, one process on the tables.  Spec lets the   *)
(* steps of different handlers interleave freely, as they do when several  *)
(* processes run this flow on the same tables.                             *)
(*                                                                         *)
(* Time is counted in days.  A stored timestamp is the ISO string the      *)
(* program writes (isoformat of an aware UTC datetime), a missing value,   *)
(* or a string that fromisoformat rejects.  user_payment_links rows are    *)
(* kept in insertion order, which stands for the created_at order the      *)
(* store sorts by; a row's id is its position.  The updated_at column of   *)
(* user_subscriptions is left out: nothing reads it.  A call that raises,  *)
(* and a provider answer that lacks its id or its short_url, is a fault;   *)
(* the number of faults in one run is bounded.                             *)
(***************************************************************************)
EXTENDS Integers, Sequences, FiniteSets, TLC

\* ---------------------------------------------------------------- bounds
NumUsers == 1
NumTasks == 2
MaxTime == 2
MaxLinks == 2
MaxFaults == 1

\* ------------------------------------------------------ program constants
\* PLAN_DURATION_DAYS is read from the environment (30 when unset); prices
\* are the defaults.
PLAN_DURATION_DAYS == 1
BASIC_PRICE_PAISE == 69900
PRO_PRICE_PAISE == 149900

Users == 1..NumUsers
Tasks == 1..NumTasks
Plans == {"basic", "pro"}

PlanLabel(plan_id) == IF plan_id = "basic" THEN "BASIC" ELSE "PRO"

PlanPrice(plan_id) == IF plan_id = "basic" THEN BASIC_PRICE_PAISE ELSE PRO_PRICE_PAISE

VARIABLES
    now,            \* datetime.now(timezone.utc), in days
    RAZORPAY_CLIENT,\* TRUE iff the provider client was configured at start
    subs,           \* table user_subscriptions: a set of rows, one per user
    links,          \* table user_payment_links: rows in created_at order
    providerPaid,   \* ids of the payment links the provider reports "paid"
    task,           \* the handlers in flight: position and local variables
    out,            \* the reply sent by the last step, NoReply if it sent none
    faults,         \* number of store/provider calls that have raised
    upserts         \* per payment link: subscription upserts performed for it

vars == <<now, RAZORPAY_CLIENT, subs, links, providerPaid, task, out, faults,
          upserts>>

\* ------------------------------------------------------------ timestamps
Missing == [kind |-> "none", t |-> 0]
Garbage == [kind |-> "bad", t |-> 0]

\* datetime.isoformat()
isoformat(t) == [kind |-> "iso", t |-> t]

\* datetime.fromisoformat(str(exp).replace("Z", "")).astimezone(utc)
fromisoformat(exp) ==
    IF exp.kind = "iso" THEN [ok |-> TRUE, t |-> exp.t]
    ELSE [ok |-> FALSE, t |-> 0]

\* ------------------------------------------------------------ store reads
\* A failed call is caught and returns None; None is the empty set here and
\* a row is a singleton.
sp_get_subscription(user_id, fail) ==
    IF fail THEN {} ELSE {r \in subs : r.user_id = user_id}

\* is_plan_active treating a timestamp that does not parse as "never expires".
is_plan_active_open(sub, clock) ==
    LET exp == sub.expires_at
    IN  IF exp = Missing THEN FALSE
        ELSE LET exp_dt == fromisoformat(exp)
             IN  IF ~exp_dt.ok THEN TRUE ELSE clock < exp_dt.t

is_plan_active(sub, clock) ==
    LET exp == sub.expires_at
    IN  IF exp = Missing THEN FALSE
        ELSE LET exp_dt == fromisoformat(exp)
             IN  IF ~exp_dt.ok THEN FALSE ELSE clock < exp_dt.t

has_active_plan(user_id, fail, clock) ==
    \E sub \in sp_get_subscription(user_id, fail) : is_plan_active(sub, clock)

LinkIds(user_id, plan_id) ==
    {i \in DOMAIN links : links[i].user_id = user_id /\ links[i].plan_id = plan_id}

Max(S) == CHOOSE x \in S : \A y \in S : y <= x

\* The id of the latest row of (user, plan), 0 for None.
sp_get_latest_payment_link(user_id, plan_id, fail) ==
    IF fail \/ LinkIds(user_id, plan_id) = {} THEN 0
    ELSE Max(LinkIds(user_id, plan_id))

\* ------------------------------------------------------------- handlers
Idle == [op |-> "idle", pc |-> "idle", user_id |-> 0, plan_id |-> "",
         row |-> 0, has_id |-> FALSE, has_url |-> FALSE,
         now |-> 0, new_exp |-> 0]

\* A reply: what the handler told the user and what it did on the way.
\* url is the id of the row whose URL was sent, 0 for no URL; raised names
\* the call of create_payment_link that raised, if one did.
NoReply == [op |-> "none", user_id |-> 0, plan_id |-> "", outcome |-> "",
            row |-> 0, url |-> 0, new_exp |-> 0,
            created |-> FALSE, inserted |-> FALSE, raised |-> "", approves |-> 0,
            active |-> FALSE, status |-> "", label |-> "", expires |-> ""]

Reply(op, user_id, plan_id, outcome) ==
    [NoReply EXCEPT !.op = op, !.user_id = user_id, !.plan_id = plan_id,
                    !.outcome = outcome]

\* Whether the next call may raise (or the provider answer be malformed): at
\* most MaxFaults calls do.
Fails == IF faults < MaxFaults THEN {FALSE, TRUE} ELSE {FALSE}

Count(fail) == IF fail THEN faults + 1 ELSE faults

\* What payment_link.create answers: <<id present, url present>>.
WellFormed == <<TRUE, TRUE>>

Malformed == {<<FALSE, TRUE>>, <<TRUE, FALSE>>}

Start(t, op, pc, user_id, plan_id) ==
    [Idle EXCEPT !.op = op, !.pc = pc, !.user_id = user_id, !.plan_id = plan_id]

\* A new handler runs in the lowest free slot.
Free(t) ==
    /\ task[t].pc = "idle"
    /\ \A s \in Tasks : s < t => task[s].pc # "idle"

\* The slots once the handler in slot t has returned.
Finish(t) ==
    [s \in Tasks |-> IF s < t THEN task[s]
                     ELSE IF s < NumTasks THEN task[s + 1] ELSE Idle]

Creating == {t \in Tasks : task[t].pc \in {"b_create", "b_insert"}}

\* A payment link left in the table by an earlier run.
OldLink(status) ==
    [user_id |-> 1, plan_id |-> "basic", plan_label |-> "BASIC",
     price_paise |-> BASIC_PRICE_PAISE, duration_days |-> PLAN_DURATION_DAYS,
     paymentlink_id |-> TRUE, paymentlink_url |-> TRUE, status |-> status]

\* With the client configured the rows of user_payment_links arise through
\* the handlers below.  Without it no handler inserts one, so the table
\* starts empty or with one row of an earlier run, unpaid or paid and credited.
Init ==
    /\ now = 0
    /\ RAZORPAY_CLIENT \in BOOLEAN
    /\ subs \in {{}} \cup
                {{[user_id |-> u, plan_id |-> "basic", plan_label |-> "BASIC",
                   expires_at |-> e]} : u \in Users,
                       e \in {Missing, Garbage, isoformat(MaxTime)}}
    /\ \/ links = <<>> /\ providerPaid = {} /\ upserts = <<>>
       \/ /\ ~RAZORPAY_CLIENT
          /\ \/ links = <<OldLink("created")>> /\ providerPaid = {} /\ upserts = <<0>>
             \/ links = <<OldLink("paid")>> /\ providerPaid = {1} /\ upserts = <<1>>
    /\ task = [t \in Tasks |-> Idle]
    /\ out = NoReply
    /\ faults = 0

\* The clock advances.
Tick ==
    /\ now < MaxTime
    /\ now' = now + 1
    /\ out' = NoReply
    /\ UNCHANGED <<RAZORPAY_CLIENT, subs, links, providerPaid, task, faults,
                   upserts>>

\* The user pays a link they were given, out of band.
ProviderPay(i) ==
    /\ i \in DOMAIN links
    /\ links[i].paymentlink_url
    /\ i \notin providerPaid
    /\ providerPaid' = providerPaid \cup {i}
    /\ out' = NoReply
    /\ UNCHANGED <<now, RAZORPAY_CLIENT, subs, links, task, faults, upserts>>

\* ------------------------------------------------- purchase initiation
\* A test of the client that is always satisfied.
ConfiguredAlways(client) == TRUE

\* "if not RAZORPAY_CLIENT" of create_payment_link and of handle_verify
Configured(client) == client

\* The reuse test without the look at the status.
ReusableAnyStatus(existing) ==
    existing # 0

\* No reuse at all: every purchase initiation asks for a new link.
ReusableNever(existing) == FALSE

\* The reuse test of show_payment_created.
Reusable(existing) ==
    existing # 0 /\ links[existing].status = "created"

\* show_payment_created up to the provider call: the read of the latest
\* link, the reuse decision, and the configuration test of create_payment_link.
BuyRead(t, user_id, plan_id) ==
    /\ Free(t)
    /\ \E fail \in Fails :
        LET existing == sp_get_latest_payment_link(user_id, plan_id, fail)
        IN  /\ faults' = Count(fail)
            /\ IF Reusable(existing)
               THEN /\ task' = task
                    /\ out' = [Reply("buy", user_id, plan_id,
                                     IF links[existing].paymentlink_url
                                     THEN "link" ELSE "no_link_available")
                               EXCEPT !.row = existing,
                                      !.url = IF links[existing].paymentlink_url
                                              THEN existing ELSE 0]
               ELSE IF ~Configured(RAZORPAY_CLIENT)
               THEN /\ task' = task
                    /\ out' = [Reply("buy", user_id, plan_id, "no_link_available")
                               EXCEPT !.row = existing]
               ELSE /\ Len(links) + Cardinality(Creating) < MaxLinks
                    /\ task' = [task EXCEPT
                                  ![t] = Start(t, "buy", "b_create", user_id, plan_id)]
                    /\ out' = NoReply
    /\ UNCHANGED <<now, RAZORPAY_CLIENT, subs, links, providerPaid, upserts>>

\* create_payment_link: RAZORPAY_CLIENT.payment_link.create
BuyCreate(t) ==
    /\ task[t].pc = "b_create"
    /\ \/ \E fail \in Fails :
            /\ faults' = Count(fail)
            /\ IF fail
               THEN /\ task' = Finish(t)
                    /\ out' = [Reply("buy", task[t].user_id, task[t].plan_id,
                                     "no_link_available")
                               EXCEPT !.created = TRUE, !.raised = "create"]
               ELSE /\ task' = [task EXCEPT ![t].pc = "b_insert",
                                            ![t].has_id = WellFormed[1],
                                            ![t].has_url = WellFormed[2]]
                    /\ out' = NoReply
       \/ \E res \in Malformed :
            /\ faults < MaxFaults
            /\ faults' = faults + 1
            /\ task' = [task EXCEPT ![t].pc = "b_insert",
                                    ![t].has_id = res[1],
                                    ![t].has_url = res[2]]
            /\ out' = NoReply
    /\ UNCHANGED <<now, RAZORPAY_CLIENT, subs, links, providerPaid, upserts>>

NewLink(user_id, plan_id, p_id, p_url) ==
    [user_id |-> user_id, plan_id |-> plan_id, plan_label |-> PlanLabel(plan_id),
     price_paise |-> PlanPrice(plan_id), duration_days |-> PLAN_DURATION_DAYS,
     paymentlink_id |-> p_id, paymentlink_url |-> p_url, status |-> "created"]

\* An insert that replaces the latest row of the same user and plan.
InsertOrReplace(table, row) ==
    LET same == {i \in DOMAIN table : /\ table[i].user_id = row.user_id
                                      /\ table[i].plan_id = row.plan_id}
    IN  IF same = {} THEN Append(table, row)
        ELSE [table EXCEPT ![Max(same)] = row]

\* insert(row) into user_payment_links
InsertLink(table, row) == Append(table, row)

\* create_payment_link: the insert into user_payment_links and the return
BuyInsert(t) ==
    /\ task[t].pc = "b_insert"
    /\ \E fail \in Fails :
        /\ faults' = Count(fail)
        /\ task' = Finish(t)
        /\ IF fail
           THEN /\ UNCHANGED <<links, upserts>>
                /\ out' = [Reply("buy", task[t].user_id, task[t].plan_id,
                                 "no_link_available")
                           EXCEPT !.created = TRUE, !.raised = "insert"]
           ELSE /\ links' = InsertLink(links, NewLink(task[t].user_id, task[t].plan_id,
                                                     task[t].has_id, task[t].has_url))
                /\ upserts' = Append(upserts, 0)
                /\ out' = [Reply("buy", task[t].user_id, task[t].plan_id,
                                 IF task[t].has_url THEN "link"
                                 ELSE "no_link_available")
                           EXCEPT !.row = Len(links) + 1,
                                  !.url = IF task[t].has_url THEN Len(links) + 1 ELSE 0,
                                  !.created = TRUE, !.inserted = TRUE]
    /\ UNCHANGED <<now, RAZORPAY_CLIENT, subs, providerPaid>>

\* -------------------------------------------------------- status query
\* str(exp).replace("Z", "")[:19]: the date and time of the stored string to
\* the second, without fraction and offset
Shown(exp) == [kind |-> "text19", t |-> exp.t]

\* sub.get("plan_label") or "Unknown Plan"
LabelOf(sub) == IF sub.plan_label = "" THEN "Unknown Plan" ELSE sub.plan_label

\* A status text that does not look at the expiry.
format_plan_status_unchecked(found, clock) ==
    IF found = {} THEN [status |-> "no_subscription", label |-> "", expires |-> ""]
    ELSE LET sub == CHOOSE r \in found : TRUE
         IN  [status |-> "active", label |-> LabelOf(sub),
              expires |-> Shown(sub.expires_at)]

\* format_plan_status, given what sp_get_subscription returned
format_plan_status(found, clock) ==
    IF found = {} THEN [status |-> "no_subscription", label |-> "", expires |-> ""]
    ELSE LET sub == CHOOSE r \in found : TRUE
         IN  IF ~is_plan_active(sub, clock)
             THEN [status |-> "expired", label |-> "", expires |-> ""]
             ELSE [status |-> "active", label |-> LabelOf(sub),
                   expires |-> Shown(sub.expires_at)]

WithStatus(reply, st) ==
    [reply EXCEPT !.status = st.status, !.label = st.label, !.expires = st.expires]

\* cmd_upgrade_status
StatusQuery(user_id) ==
    /\ \E fail \in Fails :
        /\ faults' = Count(fail)
        /\ out' = WithStatus(Reply("status", user_id, "", ""),
                             format_plan_status(sp_get_subscription(user_id, fail), now))
    /\ UNCHANGED <<now, RAZORPAY_CLIENT, subs, links, providerPaid, task,
                   upserts>>

\* --------------------------------------------------------- verification
\* A status test that never finds the link paid.
AlreadyPaidNever(row) == FALSE

\* (row.get("status") or "").lower() == "paid"
AlreadyPaid(row) == links[row].status = "paid"

\* handle_verify up to the provider call: the configuration test, the read
\* of the latest link and the three early returns.
VerifyRead(t, user_id, plan_id) ==
    /\ Free(t)
    /\ IF ~Configured(RAZORPAY_CLIENT)
       THEN /\ out' = Reply("verify", user_id, plan_id, "not_configured")
            /\ UNCHANGED <<task, faults>>
       ELSE \E fail \in Fails :
                LET row == sp_get_latest_payment_link(user_id, plan_id, fail)
                    rep(outcome) == [Reply("verify", user_id, plan_id, outcome)
                                     EXCEPT !.row = row]
                IN  IF row = 0
                    THEN /\ out' = rep("no_link")
                         /\ faults' = Count(fail)
                         /\ task' = task
                    ELSE IF AlreadyPaid(row)
                    THEN \E fail2 \in Fails :
                         /\ out' = WithStatus(rep("already"),
                                      format_plan_status(
                                          sp_get_subscription(user_id, fail2), now))
                         /\ faults' = Count(fail2)
                         /\ task' = task
                    ELSE IF ~links[row].paymentlink_id
                    THEN /\ out' = rep("invalid")
                         /\ faults' = faults
                         /\ task' = task
                    ELSE /\ task' = [task EXCEPT
                                      ![t] = [Start(t, "verify", "v_fetch",
                                                    user_id, plan_id)
                                              EXCEPT !.row = row]]
                         /\ faults' = faults
                         /\ out' = NoReply
    /\ UNCHANGED <<now, RAZORPAY_CLIENT, subs, links, providerPaid, upserts>>

\* A fetch whose answer is taken for "paid" whatever it says.
ProviderStatusAny(id) == "paid"

\* (info or {}).get("status", "").lower(), of the link the provider knows
ProviderStatus(id) == IF id \in providerPaid THEN "paid" ELSE "created"

\* handle_verify: RAZORPAY_CLIENT.payment_link.fetch and the status test;
\* on "paid" control enters sp_apply_successful_payment, which reads the clock.
VerifyFetch(t) ==
    /\ task[t].pc = "v_fetch"
    /\ \E fail \in Fails :
        LET rep(outcome) == [Reply("verify", task[t].user_id, task[t].plan_id, outcome)
                             EXCEPT !.row = task[t].row]
        IN  /\ faults' = Count(fail)
            /\ IF fail
               THEN /\ out' = rep("failed")
                    /\ task' = Finish(t)
               ELSE IF ProviderStatus(task[t].row) # "paid"
               THEN /\ out' = rep("pending")
                    /\ task' = Finish(t)
               ELSE /\ out' = NoReply
                    /\ task' = [task EXCEPT ![t].pc = "v_sub", ![t].now = now]
    /\ UNCHANGED <<now, RAZORPAY_CLIENT, subs, links, providerPaid, upserts>>

\* The base of the renewal without the test that the plan is still active.
RenewalBaseStale(found, entered, clock) ==
    IF \E sub \in found : fromisoformat(sub.expires_at).ok
    THEN LET sub == CHOOSE r \in found : TRUE
         IN  fromisoformat(sub.expires_at).t
    ELSE entered

\* sp_apply_successful_payment: the base of the renewal, given what
\* sp_get_subscription returned, the clock read on entry and the clock now.
RenewalBase(found, entered, clock) ==
    IF \E sub \in found : is_plan_active(sub, clock)
    THEN LET sub == CHOOSE r \in found : TRUE
             base == fromisoformat(sub.expires_at)
         IN  IF base.ok THEN base.t ELSE entered
    ELSE entered

\* int(payment_row.get("duration_days") or PLAN_DURATION_DAYS)
DurationDays(payment_row) ==
    IF payment_row.duration_days # 0 THEN payment_row.duration_days
    ELSE PLAN_DURATION_DAYS

\* sp_apply_successful_payment: the read of the subscription and new_exp
VerifySub(t) ==
    /\ task[t].pc = "v_sub"
    /\ \E fail \in Fails :
        LET base == RenewalBase(sp_get_subscription(task[t].user_id, fail),
                                task[t].now, now)
        IN  /\ faults' = Count(fail)
            /\ task' = [task EXCEPT
                          ![t].pc = "v_upsert",
                          ![t].now = 0,
                          ![t].new_exp = base + DurationDays(links[task[t].row])]
    /\ out' = NoReply
    /\ UNCHANGED <<now, RAZORPAY_CLIENT, subs, links, providerPaid, upserts>>

\* upsert(payload, on_conflict="user_id")
Upsert(table, payload) ==
    {r \in table : r.user_id # payload.user_id} \cup {payload}

\* sp_apply_successful_payment: the upsert of the subscription
VerifyUpsert(t) ==
    /\ task[t].pc = "v_upsert"
    /\ \E fail \in Fails :
        LET payment_row == links[task[t].row]
            payload == [user_id |-> task[t].user_id,
                        plan_id |-> payment_row.plan_id,
                        plan_label |-> payment_row.plan_label,
                        expires_at |-> isoformat(task[t].new_exp)]
        IN  /\ faults' = Count(fail)
            /\ IF fail
               THEN UNCHANGED <<subs, upserts>>
               ELSE /\ subs' = Upsert(subs, payload)
                    /\ upserts' = [upserts EXCEPT ![task[t].row] = @ + 1]
            /\ task' = [task EXCEPT ![t].pc = "v_mark"]
    /\ out' = NoReply
    /\ UNCHANGED <<now, RAZORPAY_CLIENT, links, providerPaid>>

\* An update that selects by the user of the row instead of by its id.
MarkPaidByUser(table, id) ==
    [i \in DOMAIN table |->
        IF table[i].user_id = table[id].user_id
        THEN [table[i] EXCEPT !.status = "paid"] ELSE table[i]]

\* update({"status": "paid"}).eq("id", id)
MarkPaid(table, id) ==
    [table EXCEPT ![id].status = "paid"]

\* sp_apply_successful_payment: the update of the link, and the reply
VerifyMark(t) ==
    /\ task[t].pc = "v_mark"
    /\ \E fail \in Fails :
        /\ faults' = Count(fail)
        /\ links' = IF fail THEN links ELSE MarkPaid(links, task[t].row)
    /\ out' = [Reply("verify", task[t].user_id, task[t].plan_id, "verified")
               EXCEPT !.row = task[t].row,
                      !.new_exp = task[t].new_exp]
    /\ task' = Finish(t)
    /\ UNCHANGED <<now, RAZORPAY_CLIENT, subs, providerPaid, upserts>>

\* ---------------------------------------------------------- access gate
\* An approval that is tried again when it fails.
ApproveCallsRetry(active, fail) ==
    IF active THEN (IF fail THEN 2 ELSE 1) ELSE 0

\* The number of approve_chat_join_request calls handle_join_request makes
\* for one join request of a user it found active or not, the first call
\* failing or not.
ApproveCalls(active, fail) == IF active THEN 1 ELSE 0

\* handle_join_request: the subscription gate, then the approval.  Neither
\* the notice to the user nor the approval touches the store.
JoinRequest(user_id) ==
    /\ \E fail \in Fails, approve_fails \in BOOLEAN :
        LET active == has_active_plan(user_id, fail, now)
            calls == ApproveCalls(active, approve_fails)
        IN  /\ faults' = Count(fail)
            /\ out' = [Reply("join", user_id, "",
                             IF calls = 0 THEN "denied"
                             ELSE IF approve_fails THEN "approve_failed"
                             ELSE "approved")
                       EXCEPT !.approves = calls, !.active = active]
    /\ UNCHANGED <<now, RAZORPAY_CLIENT, subs, links, providerPaid, task,
                   upserts>>

Next ==
    \/ Tick
    \/ \E i \in 1..MaxLinks : ProviderPay(i)
    \/ \E t \in Tasks, u \in Users, p \in Plans : BuyRead(t, u, p)
    \/ \E t \in Tasks : BuyCreate(t)
    \/ \E t \in Tasks : BuyInsert(t)
    \/ \E t \in Tasks, u \in Users, p \in Plans : VerifyRead(t, u, p)
    \/ \E t \in Tasks : VerifyFetch(t)
    \/ \E t \in Tasks : VerifySub(t)
    \/ \E t \in Tasks : VerifyUpsert(t)
    \/ \E t \in Tasks : VerifyMark(t)
    \/ \E u \in Users : JoinRequest(u)
    \/ \E u \in Users : StatusQuery(u)

Spec == Init /\ [][Next]_vars

\* One process on the tables: a handler starts when none is in flight.
AllIdle == \A t \in Tasks : task[t].pc = "idle"

SeqBuyRead(user_id, plan_id) == AllIdle /\ BuyRead(1, user_id, plan_id)

SeqVerifyRead(user_id, plan_id) == AllIdle /\ VerifyRead(1, user_id, plan_id)

SeqJoinRequest(user_id) == AllIdle /\ JoinRequest(user_id)

SeqStatusQuery(user_id) == AllIdle /\ StatusQuery(user_id)

NextSeq ==
    \/ Tick
    \/ \E i \in 1..MaxLinks : ProviderPay(i)
    \/ \E u \in Users, p \in Plans : SeqBuyRead(u, p)
    \/ \E t \in Tasks : BuyCreate(t)
    \/ \E t \in Tasks : BuyInsert(t)
    \/ \E u \in Users, p \in Plans : SeqVerifyRead(u, p)
    \/ \E t \in Tasks : VerifyFetch(t)
    \/ \E t \in Tasks : VerifySub(t)
    \/ \E t \in Tasks : VerifyUpsert(t)
    \/ \E t \in Tasks : VerifyMark(t)
    \/ \E u \in Users : SeqJoinRequest(u)
    \/ \E u \in Users : SeqStatusQuery(u)

SpecSeq == Init /\ [][NextSeq]_vars

\* ======================================================================
\* Claims
\* ======================================================================

\* The handler in slot t takes one step, from position from to position to,
\* and every other handler stays where it is.
Moves(t, from, to) ==
    /\ task[t].pc = from /\ task'[t].pc = to
    /\ \A s \in Tasks \ {t} : task'[s] = task[s]

\* The subscription row of a user is active at the given time.
StoredActive(user_id, clock) ==
    \E r \in subs : /\ r.user_id = user_id
                    /\ r.expires_at.kind = "iso"
                    /\ r.expires_at.t > clock

StoredExpiry(user_id) ==
    LET r == CHOOSE r \in subs : r.user_id = user_id IN r.expires_at.t

\* C1 (as claimed): idempotent verification.  With events handled one at a
\* time, once a link has been credited by a verify call, a later verify
\* call working on it leaves the subscription as it is: verifying a paid
\* link twice yields the same expires_at as verifying it once.
C1_VerifyTwiceSameExpiry ==
    [][\A t \in Tasks :
          (/\ Moves(t, "v_upsert", "v_mark")
           /\ upserts[task[t].row] >= 1)
          => subs' = subs]_vars

\* C2 (as claimed): of the concurrent verify calls that act on one payment
\* link the provider reports paid, only one extends expires_at: with no
\* call to the store or the provider failing, the upsert of a call whose
\* link another call has credited already changes nothing.
C2_ExtendedExactlyOnce ==
    [][\A t \in Tasks :
          (/\ faults' = 0
           /\ Moves(t, "v_upsert", "v_mark")
           /\ upserts[task[t].row] >= 1)
          => subs' = subs]_vars

\* C3 (as claimed): a stored expires_at only moves forward; every upsert
\* writes a value no earlier than the one stored immediately before.
C3_ExpiryOnlyMovesForward ==
    [][\A r \in subs, w \in subs' :
          (r.user_id = w.user_id /\ r.expires_at.kind = "iso")
              => (w.expires_at.kind = "iso" /\ w.expires_at.t >= r.expires_at.t)]_vars

\* C4 (as claimed): stacking renewal.  When sp_apply_successful_payment
\* computes the renewal while the stored subscription is active, expiring
\* at E, the new expiry is E + duration_days.
C4_StackingRenewal ==
    [][\A t \in Tasks :
          (/\ Moves(t, "v_sub", "v_upsert")
           /\ StoredActive(task[t].user_id, now))
          => task'[t].new_exp
               = StoredExpiry(task[t].user_id) + links[task[t].row].duration_days]_vars

\* C5: fresh renewal.  When sp_apply_successful_payment computes the
\* renewal while the user has no subscription, or one whose expires_at is
\* missing, unparseable or not later than the clock, the new expiry is the
\* clock read on entry plus duration_days, also when the read of the
\* subscription fails; and a successful upsert stores exactly that value.
C5_FreshRenewal ==
    [][\A t \in Tasks :
          /\ (/\ Moves(t, "v_sub", "v_upsert")
              /\ ~StoredActive(task[t].user_id, now))
             => task'[t].new_exp = task[t].now + links[task[t].row].duration_days
          /\ (/\ Moves(t, "v_upsert", "v_mark")
              /\ upserts'[task[t].row] # upserts[task[t].row])
             => \E r \in subs' : /\ r.user_id = task[t].user_id
                                 /\ r.expires_at = isoformat(task[t].new_exp)]_vars

\* A renewal computed over a subscription that expired before today.
C5_Witness ==
    \E t \in Tasks :
        /\ task[t].pc = "v_upsert"
        /\ \E r \in subs : /\ r.user_id = task[t].user_id
                           /\ r.expires_at.kind = "iso"
                           /\ r.expires_at.t < now
        /\ task[t].new_exp = now + PLAN_DURATION_DAYS

\* C6 (as claimed): link reuse.  With events handled one at a time, the
\* purchase initiation that follows one that sent a link URL to the same
\* user for the same plan sends the identical URL and neither calls the
\* provider nor inserts a row.
C6_LinkReuse ==
    [][(out.op = "buy" /\ out.url # 0) =>
          /\ \A t \in Tasks :
                ~(/\ Moves(t, "idle", "b_create")
                  /\ task'[t].user_id = out.user_id
                  /\ task'[t].plan_id = out.plan_id)
          /\ (/\ out'.op = "buy"
              /\ out'.user_id = out.user_id /\ out'.plan_id = out.plan_id)
             => (out'.url = out.url /\ ~out'.created /\ ~out'.inserted)]_vars

\* C7: fail-closed activity check.  The join-request handler finds the user
\* active exactly when the read of the subscription succeeds and returns a
\* row whose expires_at parses and is strictly later than the clock.
C7_FailClosed ==
    [][out'.op = "join" =>
          (out'.active <=> (faults' = faults /\ StoredActive(out'.user_id, now)))]_vars

\* A join request denied over a subscription whose expires_at does not parse.
C7_Witness ==
    /\ out.op = "join" /\ ~out.active
    /\ \E r \in subs : r.user_id = out.user_id /\ r.expires_at = Garbage

\* C8: access gate.  The join-request handler calls approve only for a user
\* it found active and whose stored subscription is active, never for
\* another, at most once per request, and leaves both tables as they are.
C8_AccessGate ==
    [][out'.op = "join" =>
          /\ out'.approves <= 1
          /\ out'.approves = 1 <=> out'.active
          /\ out'.approves = 1 => StoredActive(out'.user_id, now)
          /\ subs' = subs /\ links' = links]_vars

\* An approval that failed, and was not tried again.
C8_Witness ==
    out.op = "join" /\ out.outcome = "approve_failed" /\ out.approves = 1

\* C9: one-way status.  A row that is paid stays paid; an existing row
\* changes at most by created -> paid; rows are never removed, and a new
\* row is appended with status created.
C9_OneWayStatus ==
    [][/\ Len(links') >= Len(links)
       /\ \A i \in DOMAIN links :
             /\ links[i].status = "paid" => links'[i].status = "paid"
             /\ \/ links'[i] = links[i]
                \/ links'[i] = [links[i] EXCEPT !.status = "paid"]
       /\ \A i \in DOMAIN links' \ DOMAIN links : links'[i].status = "created"]_vars

\* A paid link followed by a newer, unpaid link of the same user and plan.
C9_Witness ==
    \E i, j \in DOMAIN links :
        /\ i < j
        /\ links[i].user_id = links[j].user_id /\ links[i].plan_id = links[j].plan_id
        /\ links[i].status = "paid" /\ links[j].status = "created"

\* The latest link of (user, plan) as stored.
Latest(user_id, plan_id) == sp_get_latest_payment_link(user_id, plan_id, FALSE)

\* A purchase reply that did not come from reusing an unpaid link.
NotReused(reply) ==
    reply.created \/ reply.row = 0 \/ links[reply.row].status = "paid"

\* C10 (as claimed): a paid link is never reused; a purchase initiation
\* that finds the latest link paid, or none, calls the provider, inserts a
\* row with status created and returns the new link's URL (stated for a
\* bot whose provider client is configured).
C10_NewLinkWhenPaidOrNone ==
    (RAZORPAY_CLIENT /\ out.op = "buy") =>
        /\ out.url # 0 => links[out.url].status = "created"
        /\ NotReused(out) =>
              /\ out.created /\ out.inserted
              /\ out.row = Len(links) /\ out.url = out.row
              /\ links[out.row].status = "created"

\* C10 (amended): a purchase initiation never sends the URL of a link whose
\* stored status is paid.  When the latest link is paid, or none exists, it
\* goes on to create_payment_link: with the provider client configured it
\* calls the provider, otherwise it replies "no link available".  A reply
\* after the provider call either follows a successful insert of one new row
\* with status created and carries the URL stored in that row, or reports
\* "no link available" with no row inserted.
C10_NeverReusePaid ==
    [][/\ (out'.op = "buy" /\ out'.url # 0) =>
             (links'[out'.url].status = "created" /\ out'.outcome = "link")
       /\ \A t \in Tasks, u \in Users, p \in Plans :
             (/\ BuyRead(t, u, p)
              /\ Latest(u, p) = 0 \/ links[Latest(u, p)].status = "paid")
             => IF RAZORPAY_CLIENT
                THEN task'[t].pc = "b_create" /\ links' = links
                ELSE /\ out'.op = "buy" /\ out'.url = 0 /\ ~out'.created
                     /\ links' = links
       /\ (out'.op = "buy" /\ out'.created) =>
             IF out'.inserted
             THEN /\ links' = Append(links, links'[Len(links')])
                  /\ out'.row = Len(links')
                  /\ links'[out'.row].status = "created"
                  /\ links'[out'.row].user_id = out'.user_id
                  /\ links'[out'.row].plan_id = out'.plan_id
                  /\ out'.url = IF links'[out'.row].paymentlink_url
                                THEN out'.row ELSE 0
             ELSE /\ links' = links
                  /\ out'.url = 0 /\ out'.outcome = "no_link_available"]_vars

\* A purchase after a paid link of the same plan: a new row, its URL sent.
C10_Witness ==
    /\ out.op = "buy" /\ out.inserted /\ out.url = out.row
    /\ \E i \in DOMAIN links :
          /\ i < out.row
          /\ links[i].user_id = out.user_id /\ links[i].plan_id = out.plan_id
          /\ links[i].status = "paid"

\* C11 (as claimed): entitlement before bookkeeping.  With one process on
\* the tables, when a verify call has just replied "verified" with new_exp,
\* the stored subscription of that user has expires_at = new_exp and the
\* plan_id and plan_label of the verified link, whether or not the update
\* that marks the link paid succeeded.
C11_VerifiedMeansStored ==
    (out.op = "verify" /\ out.outcome = "verified") =>
        \E r \in subs : /\ r.user_id = out.user_id
                        /\ r.expires_at = isoformat(out.new_exp)
                        /\ r.plan_id = links[out.row].plan_id
                        /\ r.plan_label = links[out.row].plan_label

\* A purchase reply that reports the failure of the provider's create call.
CreateFailed(reply) == reply.op = "buy" /\ reply.raised = "create"

\* C12 (as claimed): when the provider's create call fails, the purchase
\* initiation replies "no link available", inserts no row, changes no
\* subscription and returns; the next purchase initiation for the same user
\* and plan, with every call succeeding, calls the provider, inserts a row
\* and returns its URL.
C12_RetryCreatesLink ==
    [][/\ CreateFailed(out') =>
             /\ out'.outcome = "no_link_available" /\ out'.url = 0
             /\ links' = links /\ subs' = subs
             /\ \E t \in Tasks : task[t].pc = "b_create" /\ task' = Finish(t)
       /\ \A t \in Tasks :
             (/\ CreateFailed(out) /\ faults' = faults
              /\ BuyRead(t, out.user_id, out.plan_id))
             => task'[t].pc = "b_create"
       /\ \A t \in Tasks :
             (Moves(t, "b_create", "b_insert") /\ faults' = faults)
             => task'[t].has_url
       /\ \A t \in Tasks :
             (/\ task[t].pc = "b_insert" /\ task[t].has_url
              /\ task' = Finish(t) /\ faults' = faults)
             => /\ out'.inserted /\ out'.outcome = "link"
                /\ out'.url = Len(links') /\ Len(links') = Len(links) + 1]_vars

\* C12 (amended): as C12, but the next purchase initiation calls the
\* provider only when the latest stored link of the user and plan is paid
\* or absent; when it is an unpaid link, inserted meanwhile by another
\* purchase initiation or hidden from the failed one by a failed read, the
\* stored URL of that link is returned and no link is created.
C12_RetryGivesLink ==
    [][/\ CreateFailed(out') =>
             /\ out'.outcome = "no_link_available" /\ out'.url = 0
             /\ links' = links /\ subs' = subs
             /\ \E t \in Tasks : task[t].pc = "b_create" /\ task' = Finish(t)
       /\ \A t \in Tasks :
             (/\ CreateFailed(out) /\ faults' = faults
              /\ BuyRead(t, out.user_id, out.plan_id))
             => LET latest == Latest(out.user_id, out.plan_id)
                IN  IF latest = 0 \/ links[latest].status = "paid"
                    THEN task'[t].pc = "b_create"
                    ELSE /\ task' = task /\ links' = links
                         /\ out'.op = "buy" /\ ~out'.created
                         /\ out'.row = latest
                         /\ out'.url = IF links[latest].paymentlink_url
                                       THEN latest ELSE 0
       /\ \A t \in Tasks :
             (Moves(t, "b_create", "b_insert") /\ faults' = faults)
             => task'[t].has_url
       /\ \A t \in Tasks :
             (/\ task[t].pc = "b_insert" /\ task[t].has_url
              /\ task' = Finish(t) /\ faults' = faults)
             => /\ out'.inserted /\ out'.outcome = "link"
                /\ out'.url = Len(links') /\ Len(links') = Len(links) + 1]_vars

\* A purchase initiation whose provider call has just failed.
C12_Witness ==
    /\ CreateFailed(out) /\ out.outcome = "no_link_available"
    /\ \A t \in Tasks : task[t].pc = "idle"

\* C13 (as claimed): no state blocks the user.  With one process on the
\* tables and the provider client configured, in every reachable state a
\* purchase initiation whose read succeeds either sends a link URL or goes on
\* to ask the provider for a new link; and a verify call whose read succeeds,
\* for a user and plan one of whose links the provider reports paid, either
\* goes on to credit the latest link or finds it credited already.
C13_AlwaysNextAction ==
    [][RAZORPAY_CLIENT =>
          \A t \in Tasks, u \in Users, p \in Plans :
             /\ (BuyRead(t, u, p) /\ faults' = faults)
                => \/ task'[t].pc = "b_create"
                   \/ out'.op = "buy" /\ out'.url # 0
             /\ (/\ VerifyRead(t, u, p) /\ faults' = faults
                 /\ LinkIds(u, p) \cap providerPaid # {})
                => \/ task'[t].pc = "v_fetch"
                   \/ out'.op = "verify" /\ out'.outcome = "already"]_vars

\* C14: a verify call that ends with an outcome other than "verified"
\* changes no subscription row and no payment-link row: its reply comes from
\* the read step or the fetch step, and no step but the upsert of a verify
\* call changes a subscription, no step but that call's update and a
\* purchase's insert changes a link.  The outcomes "not configured", "no
\* link", "already verified" and "invalid" end the call in its read step,
\* before any provider call.  A subscription changes only in the upsert of
\* a verify call that read the latest link of the user and plan and for
\* which the provider reported that link paid.
C14_OnlyPaidVerifyWrites ==
    [][/\ (out'.op = "verify" /\ out'.outcome # "verified") =>
             /\ subs' = subs /\ links' = links
             /\ \/ task' = task
                \/ \E t \in Tasks : task[t].pc = "v_fetch" /\ task' = Finish(t)
       /\ (/\ out'.op = "verify"
           /\ out'.outcome \in {"not_configured", "no_link", "already", "invalid"})
             => task' = task
       /\ subs' # subs =>
             \E t \in Tasks :
                /\ Moves(t, "v_upsert", "v_mark")
                /\ task[t].row \in providerPaid
                /\ links[task[t].row].user_id = task[t].user_id
                /\ links[task[t].row].plan_id = task[t].plan_id
                /\ \A r \in subs : r.user_id # task[t].user_id => r \in subs'
       /\ links' # links =>
             \E t \in Tasks : task[t].pc \in {"b_insert", "v_mark"}
       /\ \A t \in Tasks, u \in Users, p \in Plans :
             (VerifyRead(t, u, p) /\ task'[t].pc = "v_fetch")
             => (task'[t].row = Latest(u, p) /\ task'[t].row # 0)]_vars

\* A verify call that failed at the provider for a link that is paid there:
\* nothing was credited.
C14_Witness ==
    /\ out.op = "verify" /\ out.outcome = "failed"
    /\ out.row \in providerPaid
    /\ links[out.row].status = "created" /\ upserts[out.row] = 0

\* C15: ordering within verification.  A link's status becomes paid only
\* in the last step of a verify call working on that link, and a verify call
\* reaches that step only through its upsert step, in which the upsert of
\* the subscription is attempted (it may raise): no link is paid in the
\* store before the upsert belonging to its payment was attempted.
C15_UpsertBeforePaid ==
    [][/\ \A i \in DOMAIN links :
             (links[i].status # "paid" /\ links'[i].status = "paid")
             => \E t \in Tasks : /\ task[t].pc = "v_mark" /\ task[t].row = i
                                  /\ task' = Finish(t)
       /\ \A t \in Tasks :
             task'[t].pc = "v_mark"
             => \/ task'[t] = task[t]
                \/ /\ task[t].pc = "v_upsert"
                   /\ task'[t] = [task[t] EXCEPT !.pc = "v_mark"]
                   /\ links' = links
                \/ t < NumTasks /\ task'[t] = task[t + 1]]_vars

\* Between the two writes: the subscription upserted, the link not yet paid.
C15_Witness ==
    \E t \in Tasks :
        /\ task[t].pc = "v_mark"
        /\ links[task[t].row].status = "created"
        /\ upserts[task[t].row] = 1

\* Two rows of one user and plan, i the older.  While i is unpaid they are
\* duplicates: j was inserted although an unpaid link existed.
DuplicateLinks(i, j) ==
    /\ i \in DOMAIN links /\ j \in DOMAIN links /\ i < j
    /\ links[i].user_id = links[j].user_id /\ links[i].plan_id = links[j].plan_id

\* C16 (as claimed): accepted purchase race.  Of the duplicate rows that two
\* concurrent purchase initiations insert at most one is ever marked paid:
\* no step marks a row paid while a newer row of the same user and plan,
\* inserted while this one was unpaid, is paid already.
C16_OneDuplicatePaid ==
    [][\A i, j \in DOMAIN links :
          (/\ DuplicateLinks(i, j) /\ faults' = 0
           /\ links[i].status = "created" /\ links'[i].status = "paid")
          => links'[j].status # "paid"]_vars

\* C17: unconfigured provider.  Without the provider client every verify
\* call replies "not configured" without reading a payment link, also when
\* the latest link is paid; every purchase initiation that cannot reuse an
\* unpaid link replies "no link available" without calling the provider;
\* and no step inserts a payment link, changes a link or a subscription, or
\* leaves a handler waiting on a call.
C17_NotConfigured ==
    [][~RAZORPAY_CLIENT =>
          /\ links' = links /\ subs' = subs /\ upserts' = upserts
          /\ task' = task /\ \A t \in Tasks : task[t].pc = "idle"
          /\ out'.op = "verify" =>
                /\ out'.outcome = "not_configured"
                /\ out'.row = 0 /\ faults' = faults
          /\ (out'.op = "buy" /\ NotReused(out')) =>
                /\ out'.outcome = "no_link_available" /\ out'.url = 0
                /\ ~out'.created /\ ~out'.inserted]_vars

\* "Not configured" in answer to a verify call whose latest link is paid.
C17_Witness ==
    /\ ~RAZORPAY_CLIENT
    /\ out.op = "verify" /\ out.outcome = "not_configured"
    /\ Latest(out.user_id, out.plan_id) # 0
    /\ links[Latest(out.user_id, out.plan_id)].status = "paid"

\* C18: status query.  The reply of cmd_upgrade_status is "no subscription"
\* exactly when sp_get_subscription returned nothing (no row, or the read
\* raised), "expired" exactly when it returned a row that is_plan_active
\* rejects, and "active" exactly when has_active_plan is true of the same
\* read at the same time; with the read succeeding these are: no stored row,
\* a stored row that is not active, a stored row that is active.  An active
\* reply carries the stored plan_label and the stored expires_at cut to the
\* second.  The query changes neither table.
C18_StatusQuery ==
    [][out'.op = "status" =>
          LET u == out'.user_id
              fail == faults' # faults
              found == sp_get_subscription(u, fail)
              rows == {r \in subs : r.user_id = u}
          IN  /\ out'.status \in {"no_subscription", "expired", "active"}
              /\ out'.status = "no_subscription" <=> found = {}
              /\ out'.status = "expired"
                    <=> (found # {} /\ \A r \in found : ~is_plan_active(r, now))
              /\ out'.status = "active" <=> has_active_plan(u, fail, now)
              /\ ~fail =>
                    /\ out'.status = "no_subscription" <=> rows = {}
                    /\ out'.status = "expired"
                          <=> (rows # {} /\ ~StoredActive(u, now))
                    /\ out'.status = "active" <=> StoredActive(u, now)
              /\ out'.status = "active" =>
                    \E r \in rows : /\ out'.label = r.plan_label
                                     /\ out'.expires.t = r.expires_at.t
                                     /\ out'.expires = Shown(r.expires_at)
              /\ subs' = subs /\ links' = links]_vars

\* "Expired" for a subscription that ends at this very moment.
C18_Witness ==
    /\ out.op = "status" /\ out.status = "expired"
    /\ \E r \in subs : /\ r.user_id = out.user_id
                       /\ r.expires_at = isoformat(now)

\* C19 (as claimed): with one process on the tables, in every reachable
\* state and for every user and plan, a payment link with status created is
\* the latest link of that user and plan: at most one link is unpaid, and
\* every older one is paid.
C19_OneUnpaidLink ==
    \A u \in Users, p \in Plans :
        \A i \in LinkIds(u, p) :
            links[i].status = "created" => i = Latest(u, p)

\* The verify calls that have upserted for link i and not yet marked it.
Marking(i) == {t \in Tasks : task[t].pc = "v_mark" /\ task[t].row = i}

\* C20 (as claimed): payment accounting.  With one process on the tables
\* and no call failing, in every reachable state every paid link has been
\* upserted for exactly once and no unpaid link has been upserted for.
C20_UpsertsEqualPaid ==
    faults = 0 =>
        \A i \in DOMAIN links :
            upserts[i] = IF links[i].status = "paid" THEN 1 ELSE 0

\* C20 (amended): with one process on the tables and no call failing, in
\* every reachable state every paid link has been upserted for exactly once,
\* and an unpaid link has been upserted for only while the verify call that
\* did so is about to mark it paid; each upsert is for a link that is unpaid
\* and not yet upserted for, and stores the expiry computed from the base
\* plus that link's duration_days.
C20_UpsertsEqualPaidAtRest ==
    /\ [](faults = 0 =>
             \A i \in DOMAIN links :
                 upserts[i] = IF links[i].status = "paid" \/ Marking(i) # {}
                              THEN 1 ELSE 0)
    /\ [][faults' = 0 =>
             \A t \in Tasks :
                /\ (Moves(t, "v_sub", "v_upsert")) =>
                      task'[t].new_exp
                        = (IF StoredActive(task[t].user_id, now)
                           THEN StoredExpiry(task[t].user_id) ELSE task[t].now)
                          + links[task[t].row].duration_days
                /\ (Moves(t, "v_upsert", "v_mark")) =>
                      /\ links[task[t].row].status = "created"
                      /\ upserts[task[t].row] = 0 /\ upserts'[task[t].row] = 1
                      /\ StoredExpiry(task[t].user_id)' = task[t].new_exp]_vars

\* Two links paid and credited, one on top of the other.
C20_Witness ==
    /\ faults = 0 /\ AllIdle /\ Len(links) = 2 /\ now = 0
    /\ \A i \in DOMAIN links :
          links[i].user_id = 1 /\ links[i].status = "paid" /\ upserts[i] = 1
    /\ \E r \in subs : r.user_id = 1 /\ r.expires_at = isoformat(2 * PLAN_DURATION_DAYS)

\* The links of another plan of the same user that a verify call has
\* upserted for already.
CreditedOtherPlan(i) ==
    {j \in DOMAIN links : /\ links[j].user_id = links[i].user_id
                          /\ links[j].plan_id # links[i].plan_id
                          /\ upserts[j] >= 1}

\* C21 (as claimed): no lost renewal across plans.  With no call failing,
\* when a verify call upserts for a link of one plan after a concurrent
\* verify call has upserted for a link of the user's other plan, and the
\* subscription stored by that call is still active, the new expires_at is
\* the stored one plus this link's duration_days: the stored expiry ends as
\* the base plus both durations, neither extension overwriting the other.
C21_NoLostRenewal ==
    [][\A t \in Tasks :
          (/\ faults' = 0
           /\ Moves(t, "v_upsert", "v_mark")
           /\ CreditedOtherPlan(task[t].row) # {}
           /\ StoredActive(task[t].user_id, now))
          => StoredExpiry(task[t].user_id)'
               = StoredExpiry(task[t].user_id) + links[task[t].row].duration_days]_vars

====
